---- MODULE Spec2Model ----
(***************************************************************************)
(* Model of the EventSourcingDB Rust client: the request layer of          *)
(* src/src/client.rs and the response decoders of                          *)
(* src/src/client/client_request*.                                         *)
(*                                                                         *)
(* The specifications of the module:                                       *)
(*   SpecStreaming  one streaming call (request_streaming + build_stream)  *)
(*                  against a server that sends lines while the caller     *)
(*                  polls the returned stream;                             *)
(*   SpecOneShot    invocations of the one-shot operations                 *)
(*                  (request_oneshot + validate_response);                 *)
(*   SpecEvent      one received Event, its fields changed one at a time,  *)
(*                  under verify_hash and verify_signature                 *)
(*                  (src/src/event/event_types/event.rs);                  *)
(*   SpecConcurrent a streaming call and a one-shot call of one Client,    *)
(*                  their steps interleaved;                               *)
(*   SpecServer     write_events, read_events and observe_events against   *)
(*                  a database;                                            *)
(*   SpecWrite      write_events with preconditions and read_events with   *)
(*                  options, one call after the other, against a database. *)
(***************************************************************************)
EXTENDS Integers, Sequences, FiniteSets, TLC

\* Lines the server sends in one response body.
MaxLines == 3
\* Invocations of one-shot operations in one behaviour.
MaxCalls == 2
\* Lines the server sends on the streaming call that runs beside a one-shot
\* call.
MaxConcurrentLines == 1
\* Events the database holds at most, and candidates of one write_events call.
MaxEvents == 3
MaxCandidates == 2
\* How many fields of a received event are changed before it is verified.
MaxChanges == 2
\* Preconditions of one write_events call.
MaxPreconditions == 2

VARIABLES
    base_url,    \* Client.base_url
    api_token,   \* Client.api_token
    \* ---- one streaming call ----
    sop,         \* the streaming operation that was called
    spc,         \* position of the call: idle, sending, responded, streaming, ended, done
    sresp,       \* head of the HTTP response: status and error-body text
    sresult,     \* what request_streaming returned to the caller
    srequests,   \* HTTP requests sent by the call
    wire,        \* lines sent by the server, not yet read by the decoder
    nsent,       \* number of lines the server has sent
    closed,      \* the server has closed the response body
    lines,       \* lines read by lines_stream so far, in order
    delivered,   \* items handed to the caller: [src: index into lines, item]
    polling,     \* the caller is awaiting stream.next()
    \* ---- one-shot calls ----
    oop,         \* the one-shot operation that was called
    opc,         \* position of the call: idle, sending, responded, done
    oargs,       \* the arguments of the call that local checks read
    oresp,       \* the HTTP response: status and body
    oresult,     \* what the operation returned to the caller
    orequests,   \* HTTP requests sent by the current invocation
    oparsed,     \* response.json() ran in the current invocation
    ovalidated,  \* validate_response ran in the current invocation
    ocalls,      \* invocations so far
    \* ---- one received event ----
    ev,          \* the Event
    vop,         \* the method last called on it: none, verify_hash, verify_signature
    vkey,        \* the public key handed to verify_signature
    vresult,     \* what the method returned
    nchanged,    \* fields changed since the server issued the event
    other,       \* the event parsed from the JSON text of ev (ev until then)
    \* ---- the database behind the server ----
    db,          \* the stored events, in the order they were written
    cursor,      \* how far into db the answer to the streaming call has come
    snap,        \* the number of stored events when the streaming call was taken
    wcands,      \* the candidates of the last write_events call
    wresult,     \* what that call returned
    wpre,        \* the preconditions of that call
    wreqs,       \* the requests that call sent
    wlog,        \* the events all successful write_events calls returned
    rcall        \* the read_events call made since, and its items

clientVars == <<base_url, api_token>>
streamVars == <<sop, spc, sresp, sresult, srequests, wire, nsent, closed, lines,
                delivered, polling>>
oneshotVars == <<oop, opc, oargs, oresp, oresult, orequests, oparsed, ovalidated, ocalls>>
eventVars == <<ev, vop, vkey, vresult, nchanged, other>>
serverVars == <<db, cursor, snap, wcands, wresult, wpre, wreqs, wlog, rcall>>
vars == <<clientVars, streamVars, oneshotVars, eventVars, serverVars>>

(***************************************************************************)
(* Values                                                                  *)
(***************************************************************************)

\* A JSON value as far as the decoders tell values apart: its shape and content.
JsonValue(kind, val) == [kind |-> kind, val |-> val]
\* The "payload" key is missing from the line.
NoPayload == JsonValue("absent", "")
\* A Rust String.
Str(s) == JsonValue("string", s)
\* The unit value () and errors without content.
Unit == JsonValue("unit", "")

\* One line of the response body. json = FALSE: the line is not a JSON document.
Line(tag, payload) == [json |-> TRUE, tag |-> tag, payload |-> payload]
Garbage == [json |-> FALSE, tag |-> "", payload |-> NoPayload]
ErrorLine(m) == Line("error", JsonValue("error", m))
\* Not a line: the place in the body where reading it failed.
IoFailure == [json |-> FALSE, tag |-> "(read failure)", payload |-> NoPayload]
HeartbeatLine == Line("heartbeat", NoPayload)

\* Result<T, ClientError>
Ok(v) == [res |-> "Ok", kind |-> "Ok", val |-> v]
Err(kind, v) == [res |-> "Err", kind |-> kind, val |-> v]

\* Whether serde can deserialize payload p into the Rust type named ty.
DecodesAs(ty, p) ==
    CASE ty = "Event" -> p.kind = "event"
      [] ty = "EventType" -> p.kind = "eventType"
      [] ty = "LineItemPayload" -> p.kind \in {"subject", "event"}  \* any object with a string field `subject`
      [] ty = "Value" -> p.kind # "absent"
      [] ty = "ErrorPayload" -> p.kind = "error"
      [] OTHER -> FALSE

(***************************************************************************)
(* Client                                                                  *)
(***************************************************************************)

\* Base URLs a Client can be constructed with; the second cannot be a base.
BaseUrls == {"http://localhost:3000/", "mailto:db"}
ApiTokens == {"secrettoken"}

\* Url::join of a static path: fails on a URL that cannot be a base.
build_request_ok(url) == url # "mailto:db"

\* reqwest::StatusCode::is_success
is_success(status) == status >= 200 /\ status < 300

Statuses == {200, 401, 500}

\* response.text().await.unwrap_or_default()
text_or_default(resp) == IF resp.readable THEN resp.text ELSE ""

(***************************************************************************)
(* Streaming decoders: one build_stream per operation                      *)
(***************************************************************************)

StreamingOps == {"read_events", "observe_events", "list_subjects",
                 "list_event_types", "run_eventql_query"}

\* StreamingRequest::ItemType
ItemType(op) ==
    CASE op \in {"read_events", "observe_events"} -> "Event"
      [] op = "list_event_types" -> "EventType"
      [] op = "list_subjects" -> "LineItemPayload"
      [] op = "run_eventql_query" -> "Value"

\* StreamingRequest::ITEM_TYPE_NAME of the one request that uses the default
\* build_stream.
ITEM_TYPE_NAME == "event"

\* serde_json::from_str::<StreamLineItem<T>>: the tagged variants Error and
\* Heartbeat are tried first, then the untagged variant Ok { ty, payload: T }.
StreamLineItem(ty, line) ==
    IF ~line.json THEN [v |-> "ParseError", ty |-> "", payload |-> NoPayload]
    ELSE IF line.tag = "error" /\ DecodesAs("ErrorPayload", line.payload)
        THEN [v |-> "Error", ty |-> line.tag, payload |-> line.payload]
    ELSE IF line.tag = "heartbeat" /\ line.payload = NoPayload
        THEN [v |-> "Heartbeat", ty |-> line.tag, payload |-> NoPayload]
    ELSE IF DecodesAs(ty, line.payload)
        THEN [v |-> "Ok", ty |-> line.tag, payload |-> line.payload]
    ELSE [v |-> "ParseError", ty |-> "", payload |-> NoPayload]

\* lines_stream that hands a read failure on as if it were a line of text.
maybe_line_lossy(line) == Ok(line)

\* An item of lines_stream: a line of the body, or the io::Error of reading
\* or splitting the body, converted into ClientError::IoError.
maybe_line(line) == IF line = IoFailure THEN Err("IoError", Unit) ELSE Ok(line)

\* The default StreamingRequest::build_stream (map, then filter_map), applied
\* to one line: the sequence of items it yields for it (none or one).
default_build_stream(op, line) ==
    LET o == StreamLineItem(ItemType(op), line) IN
    CASE maybe_line(line).res = "Err" -> <<maybe_line(line)>>
      [] o.v = "Error" -> <<Err("DBError", Str(o.payload.val))>>
      [] o.v = "Heartbeat" -> <<>>
      [] o.v = "Ok" /\ o.ty = ITEM_TYPE_NAME -> <<Ok(o.payload)>>
      [] o.v = "Ok" /\ o.ty # ITEM_TYPE_NAME -> <<Err("InvalidResponseType", Str(o.ty))>>
      [] OTHER -> <<Err("SerdeJsonError", Unit)>>

\* The adjacently tagged enum LineItem { Error { error }, <Variant>(T) } of
\* read_events and list_event_types, and its conversion into a Result.
tagged_line_item(variant, ty, line) ==
    IF maybe_line(line).res = "Err" THEN <<maybe_line(line)>>
    ELSE IF line.json /\ line.tag = "error" /\ DecodesAs("ErrorPayload", line.payload)
        THEN <<Err("DBError", Str(line.payload.val))>>
    ELSE IF line.json /\ line.tag = variant /\ DecodesAs(ty, line.payload)
        THEN <<Ok(line.payload)>>
    ELSE <<Err("SerdeJsonError", Unit)>>

\* ReadEventsRequest::build_stream
read_events_build_stream(line) == tagged_line_item("event", "Event", line)

\* ListEventTypesRequest::build_stream
list_event_types_build_stream(line) == tagged_line_item("eventType", "EventType", line)

\* ListSubjectsRequest::build_stream: struct LineItem { payload: { subject }, type }
list_subjects_build_stream(line) ==
    IF maybe_line(line).res = "Err" THEN <<maybe_line(line)>>
    ELSE IF line.json /\ DecodesAs("LineItemPayload", line.payload)
        THEN IF line.tag # "subject"
                THEN <<Err("InvalidEventType", Unit)>>
                ELSE <<Ok(Str(line.payload.val))>>
    ELSE <<Err("SerdeJsonError", Unit)>>

\* RunEventqlQueryRequest::build_stream: the whole line is parsed as a
\* serde_json::Value and returned; LineItem is never used.
run_eventql_query_build_stream(line) ==
    IF maybe_line(line).res = "Err" THEN <<maybe_line(line)>>
    ELSE IF line.json
        THEN <<Ok([kind |-> "object", type |-> line.tag, payload |-> line.payload])>>
    ELSE <<Err("SerdeJsonError", Unit)>>

\* R::build_stream, dispatched on the request type.
build_stream(op, line) ==
    CASE op = "observe_events" -> default_build_stream(op, line)
      [] op = "read_events" -> read_events_build_stream(line)
      [] op = "list_event_types" -> list_event_types_build_stream(line)
      [] op = "list_subjects" -> list_subjects_build_stream(line)
      [] op = "run_eventql_query" -> run_eventql_query_build_stream(line)

(***************************************************************************)
(* The lines a server may send in answer to a streaming call               *)
(***************************************************************************)

\* The tag the server gives the data lines of an operation.
ExpectedTag(op) ==
    CASE op \in {"read_events", "observe_events"} -> "event"
      [] op = "list_event_types" -> "eventType"
      [] op = "list_subjects" -> "subject"
      [] op = "run_eventql_query" -> "row"

\* The JSON shape of the payload of a data line of an operation.
PayloadKind(op) ==
    CASE op \in {"read_events", "observe_events"} -> "event"
      [] op = "list_event_types" -> "eventType"
      [] op = "list_subjects" -> "subject"
      [] op = "run_eventql_query" -> "row"

\* A tag that belongs to another operation.
OtherTag(op) == IF op = "list_subjects" THEN "event" ELSE "subject"

ItemPayloads(op) == {JsonValue(PayloadKind(op), v) : v \in {"a", "b"}}
\* A JSON value that is not of the operation's payload shape.
OtherPayload == JsonValue("number", "1")

LinesFor(op) ==
    {Line(ExpectedTag(op), p) : p \in ItemPayloads(op)}
    \cup {Line(ExpectedTag(op), OtherPayload)}
    \cup {ErrorLine("m"), HeartbeatLine, Garbage}
    \cup {Line(OtherTag(op), JsonValue(PayloadKind(op), "a")),
          Line(OtherTag(op), OtherPayload)}

AllLines == UNION {LinesFor(op) : op \in StreamingOps}

(***************************************************************************)
(* One streaming call: Client::request_streaming and the returned stream   *)
(***************************************************************************)

NoResponse == [status |-> 0, readable |-> FALSE, text |-> ""]
NoResult == [res |-> "None", kind |-> "None", val |-> Unit]
\* The value request_streaming returns on success: the stream itself.
StreamHandle == JsonValue("stream", "")

StreamInit ==
    /\ sop = "none"
    /\ spc = "idle"
    /\ sresp = NoResponse
    /\ sresult = NoResult
    /\ srequests = 0
    /\ wire = <<>>
    /\ nsent = 0
    /\ closed = FALSE
    /\ lines = <<>>
    /\ delivered = <<>>
    /\ polling = FALSE

\* request_streaming up to `.send().await`: build_request, then the request
\* goes out; a base URL that cannot be joined ends the call without a request.
request_streaming_send(op) ==
    /\ spc = "idle"
    /\ sop' = op
    /\ IF build_request_ok(base_url)
          THEN /\ srequests' = srequests + 1
               /\ spc' = "sending"
               /\ sresult' = sresult
          ELSE /\ srequests' = srequests
               /\ spc' = "done"
               /\ sresult' = Err("URLParseError", Unit)
    /\ UNCHANGED <<sresp, wire, nsent, closed, lines, delivered, polling>>
    /\ UNCHANGED <<clientVars, oneshotVars, eventVars, serverVars>>

\* `.send().await?` fails: the transport error is returned.
request_streaming_send_error ==
    /\ spc = "sending"
    /\ spc' = "done"
    /\ sresult' = Err("ReqwestError", Str("send"))
    /\ UNCHANGED <<sop, sresp, srequests, wire, nsent, closed, lines, delivered, polling>>
    /\ UNCHANGED <<clientVars, oneshotVars, eventVars, serverVars>>

\* The head of the server's response arrives.
ServerRespond(status, readable) ==
    /\ spc = "sending"
    /\ is_success(status) => readable   \* only an error body is read as text
    /\ spc' = "responded"
    /\ sresp' = [status |-> status, readable |-> readable,
                 text |-> IF is_success(status) THEN "" ELSE "error body"]
    /\ UNCHANGED <<sop, sresult, srequests, wire, nsent, closed, lines, delivered, polling>>
    /\ UNCHANGED <<clientVars, oneshotVars, eventVars, serverVars>>

\* request_streaming without the status check.
request_streaming_result_unchecked(resp) == Ok(StreamHandle)

\* What request_streaming returns for a response.
request_streaming_result(resp) ==
    IF is_success(resp.status)
        THEN Ok(StreamHandle)
        ELSE Err("DBApiError", [status |-> resp.status, text |-> text_or_default(resp)])

\* request_streaming after `.send().await`: the status check.
request_streaming_status ==
    /\ spc = "responded"
    /\ sresult' = request_streaming_result(sresp)
    /\ spc' = IF sresult'.res = "Ok" THEN "streaming" ELSE "done"
    /\ UNCHANGED <<sop, sresp, srequests, wire, nsent, closed, lines, delivered, polling>>
    /\ UNCHANGED <<clientVars, oneshotVars, eventVars, serverVars>>

\* The server writes one more line into the body of a success response.
ServerSend(line) ==
    /\ spc \in {"responded", "streaming"}
    /\ line \in LinesFor(sop)
    /\ is_success(sresp.status)
    /\ ~closed
    /\ nsent < MaxLines
    /\ wire' = Append(wire, line)
    /\ nsent' = nsent + 1
    /\ UNCHANGED <<sop, spc, sresp, sresult, srequests, closed, lines, delivered, polling>>
    /\ UNCHANGED <<clientVars, oneshotVars, eventVars, serverVars>>

\* The server ends the response body.
ServerClose ==
    /\ spc \in {"responded", "streaming"}
    /\ is_success(sresp.status)
    /\ ~closed
    /\ closed' = TRUE
    /\ UNCHANGED <<sop, spc, sresp, sresult, srequests, wire, nsent, lines, delivered, polling>>
    /\ UNCHANGED <<clientVars, oneshotVars, eventVars, serverVars>>

\* Reading the body fails (the connection breaks, a chunk cannot be read):
\* after the lines already written the stream of bytes gives an error and
\* nothing more.
BodyFail ==
    /\ spc \in {"responded", "streaming"}
    /\ is_success(sresp.status)
    /\ ~closed
    /\ wire' = Append(wire, IoFailure)
    /\ closed' = TRUE
    /\ UNCHANGED <<sop, spc, sresp, sresult, srequests, nsent, lines, delivered, polling>>
    /\ UNCHANGED <<clientVars, oneshotVars, eventVars, serverVars>>

\* The caller awaits stream.next().
Poll ==
    /\ spc = "streaming"
    /\ ~polling
    /\ polling' = TRUE
    /\ UNCHANGED <<sop, spc, sresp, sresult, srequests, wire, nsent, closed, lines, delivered>>
    /\ UNCHANGED <<clientVars, oneshotVars, eventVars, serverVars>>

\* A decoder that runs detached from the handle the caller holds: it goes on
\* reading after the handle was dropped.
PollLine_detached ==
    /\ spc \in {"streaming", "dropped"}
    /\ polling \/ spc = "dropped"
    /\ wire # <<>>
    /\ LET line == Head(wire)
           out == build_stream(sop, line)
       IN /\ wire' = Tail(wire)
          /\ lines' = Append(lines, line)
          /\ delivered' = IF out = <<>> THEN delivered
                          ELSE Append(delivered, [src |-> Len(lines) + 1, item |-> out[1]])
          /\ polling' = (polling /\ out = <<>>)
    /\ UNCHANGED <<sop, spc, sresp, sresult, srequests, nsent, closed>>
    /\ UNCHANGED <<clientVars, oneshotVars, eventVars, serverVars>>

\* A decoder that reads ahead: it decodes a line as soon as the line is there,
\* whether or not the caller is waiting for an item.
PollLine_eager ==
    /\ spc = "streaming"
    /\ wire # <<>>
    /\ LET line == Head(wire)
           out == build_stream(sop, line)
       IN /\ wire' = Tail(wire)
          /\ lines' = Append(lines, line)
          /\ delivered' = IF out = <<>> THEN delivered
                          ELSE Append(delivered, [src |-> Len(lines) + 1, item |-> out[1]])
          /\ polling' = (polling /\ out = <<>>)
    /\ UNCHANGED <<sop, spc, sresp, sresult, srequests, nsent, closed>>
    /\ UNCHANGED <<clientVars, oneshotVars, eventVars, serverVars>>

\* While polled, lines_stream hands the next line to build_stream; an item
\* completes the poll, a filtered line leaves the caller waiting.  The stream
\* is a chain of lazy adapters (bytes_stream, StreamReader, LinesStream, map,
\* filter_map) owned by the caller: it runs only inside the caller's poll.
PollLine ==
    /\ spc = "streaming"
    /\ polling
    /\ wire # <<>>
    /\ LET line == Head(wire)
           out == build_stream(sop, line)
       IN /\ wire' = Tail(wire)
          /\ lines' = Append(lines, line)
          /\ delivered' = IF out = <<>> THEN delivered
                          ELSE Append(delivered, [src |-> Len(lines) + 1, item |-> out[1]])
          /\ polling' = (out = <<>>)
    /\ UNCHANGED <<sop, spc, sresp, sresult, srequests, nsent, closed>>
    /\ UNCHANGED <<clientVars, oneshotVars, eventVars, serverVars>>

\* While polled, the body is at its end: the stream yields None.
PollEnd ==
    /\ spc = "streaming"
    /\ polling
    /\ wire = <<>>
    /\ closed
    /\ spc' = "ended"
    /\ polling' = FALSE
    /\ UNCHANGED <<sop, sresp, sresult, srequests, wire, nsent, closed, lines, delivered>>
    /\ UNCHANGED <<clientVars, oneshotVars, eventVars, serverVars>>

\* The caller drops the stream, at any point and also while a poll is
\* pending.  The stream owns the response, so the body and its connection go
\* with it; what the server had written and was not read is discarded.
Drop ==
    /\ spc = "streaming"
    /\ spc' = "dropped"
    /\ polling' = FALSE
    /\ UNCHANGED <<sop, sresp, sresult, srequests, wire, nsent, closed, lines, delivered>>
    /\ UNCHANGED <<clientVars, oneshotVars, eventVars, serverVars>>

NextStreaming ==
    \/ \E op \in StreamingOps : request_streaming_send(op)
    \/ request_streaming_send_error
    \/ \E status \in Statuses, readable \in BOOLEAN : ServerRespond(status, readable)
    \/ request_streaming_status
    \/ \E line \in AllLines : ServerSend(line)
    \/ ServerClose
    \/ BodyFail
    \/ Poll
    \/ PollLine
    \/ PollEnd
    \/ Drop

(***************************************************************************)
(* One-shot calls: Client::request_oneshot and validate_response           *)
(***************************************************************************)

OneShotOps == {"ping", "verify_api_token", "write_events", "read_event_type",
               "register_event_schema"}

\* OneShotRequest::Response
Response(op) ==
    CASE op \in {"ping", "verify_api_token", "register_event_schema"} -> "ManagementEvent"
      [] op = "write_events" -> "Vec<Event>"
      [] op = "read_event_type" -> "EventType"

\* Event type names are sequences of pieces of text; the name is their
\* concatenation.
ApiPrefix == "io.eventsourcingdb.api."
PingReceived == <<ApiPrefix, "ping-received">>
ApiTokenVerified == <<ApiPrefix, "api-token-verified">>
EventSchemaRegistered == <<ApiPrefix, "event-schema-registered">>

\* The types a management event in a response may carry.
ManagementTypes ==
    {<<prefix, word>> : prefix \in {ApiPrefix, "com.example."},
                        word \in {"ping-received", "api-token-verified",
                                  "event-schema-registered"}}

\* str::ends_with on type names
EndsWith(name, suffix) ==
    /\ Len(name) >= Len(suffix)
    /\ SubSeq(name, Len(name) - Len(suffix) + 1, Len(name)) = suffix

\* The bodies a response may carry: a JSON document of one of the response
\* shapes, or something that is no such document.
BodyKinds == {"ManagementEvent", "Vec<Event>", "EventType", "garbage"}

NoBody == [status |-> 0, readable |-> FALSE, text |-> "", kind |-> "none", type |-> <<>>]

\* The error a failed validation predicate returns.
SemanticError(op) ==
    CASE op = "ping" -> "PingFailed"
      [] op = "verify_api_token" -> "APITokenInvalid"
      [] op = "register_event_schema" -> "InvalidEventType"
      [] OTHER -> "none"

\* The acknowledgement type validate_response compares with.
AcknowledgementType(op) ==
    CASE op = "ping" -> PingReceived
      [] op = "verify_api_token" -> ApiTokenVerified
      [] op = "register_event_schema" -> EventSchemaRegistered
      [] OTHER -> <<>>

\* validate_response comparing only the end of the type.
validate_response_suffix(op, response) ==
    IF op \in {"ping", "verify_api_token", "register_event_schema"}
        THEN IF EndsWith(response.type, Tail(AcknowledgementType(op)))
                THEN Ok(Unit)
                ELSE Err(SemanticError(op), Unit)
        ELSE Ok(Unit)

\* OneShotRequest::validate_response and its overrides in PingRequest,
\* VerifyApiTokenRequest and RegisterEventSchemaRequest.
validate_response(op, response) ==
    IF op \in {"ping", "verify_api_token", "register_event_schema"}
        THEN IF response.type = AcknowledgementType(op)
                THEN Ok(Unit)
                ELSE Err(SemanticError(op), Unit)
        ELSE Ok(Unit)

\* response.json::<R::Response>() succeeds: the body could be read and is a
\* document of the response type.
json_ok(op, resp) == resp.readable /\ resp.kind = Response(op)

\* The value response.json() decoded.
json(resp) == [kind |-> resp.kind, type |-> resp.type]

\* A try_new that accepts any schema document.
try_new_unvalidated(event_type, schema_valid) ==
    IF event_type = "" THEN Err("InvalidEventType", Unit)
    ELSE Ok(Unit)

\* RegisterEventSchemaRequest::try_new: the event type must not be empty and
\* the schema must pass jsonschema::meta::validate.
try_new(event_type, schema_valid) ==
    IF event_type = "" THEN Err("InvalidEventType", Unit)
    ELSE IF ~schema_valid THEN Err("JsonSchemaError", Unit)
    ELSE Ok(Unit)

\* What the public method makes of request_oneshot's Ok value: ping and
\* verify_api_token drop it.
facade(op, value) == IF op \in {"ping", "verify_api_token"} THEN Ok(Unit) ELSE Ok(value)

\* The arguments of an operation without local checks.
NoArgs == [event_type |-> "", schema_valid |-> FALSE]

OneShotInit ==
    /\ oop = "none"
    /\ opc = "idle"
    /\ oargs = NoArgs
    /\ oresp = NoBody
    /\ oresult = NoResult
    /\ orequests = 0
    /\ oparsed = FALSE
    /\ ovalidated = FALSE
    /\ ocalls = 0

\* A public one-shot method is called: (try_new for register_event_schema,)
\* build_request, and the request goes out.
request_oneshot_send(op, event_type, schema_valid) ==
    /\ opc \in {"idle", "done"}
    /\ ocalls < MaxCalls
    /\ ocalls' = ocalls + 1
    /\ oop' = op
    /\ oargs' = IF op = "register_event_schema"
                   THEN [event_type |-> event_type, schema_valid |-> schema_valid]
                   ELSE NoArgs
    /\ oresp' = NoBody
    /\ oparsed' = FALSE
    /\ ovalidated' = FALSE
    /\ IF op = "register_event_schema" /\ try_new(event_type, schema_valid).res = "Err"
          THEN /\ oresult' = try_new(event_type, schema_valid)
               /\ orequests' = 0
               /\ opc' = "done"
          ELSE IF ~build_request_ok(base_url)
          THEN /\ oresult' = Err("URLParseError", Unit)
               /\ orequests' = 0
               /\ opc' = "done"
          ELSE /\ oresult' = NoResult
               /\ orequests' = 1
               /\ opc' = "sending"
    /\ UNCHANGED <<clientVars, streamVars, eventVars, serverVars>>

\* A client that sends the request again after a transport failure.
request_oneshot_send_error_retry ==
    /\ opc = "sending"
    /\ orequests' = orequests + 1
    /\ UNCHANGED <<oop, oargs, opc, oresp, oresult, oparsed, ovalidated, ocalls>>
    /\ UNCHANGED <<clientVars, streamVars, eventVars, serverVars>>

\* A transport failure of the one-shot call that takes the streaming call of
\* the same Client down with it.
request_oneshot_send_error_shared ==
    /\ opc = "sending"
    /\ oresult' = Err("ReqwestError", Str("send"))
    /\ opc' = "done"
    /\ spc' = IF spc = "streaming" THEN "ended" ELSE spc
    /\ polling' = FALSE
    /\ UNCHANGED <<oop, oargs, oresp, orequests, oparsed, ovalidated, ocalls>>
    /\ UNCHANGED <<sop, sresp, sresult, srequests, wire, nsent, closed, lines, delivered>>
    /\ UNCHANGED <<clientVars, eventVars, serverVars>>

\* `.send().await?` fails: the transport error is returned.
request_oneshot_send_error ==
    /\ opc = "sending"
    /\ oresult' = Err("ReqwestError", Str("send"))
    /\ opc' = "done"
    /\ UNCHANGED <<oop, oargs, oresp, orequests, oparsed, ovalidated, ocalls>>
    /\ UNCHANGED <<clientVars, streamVars, eventVars, serverVars>>

\* The server's response arrives.
OneShotRespond(status, readable, kind, type) ==
    /\ opc = "sending"
    /\ kind = "ManagementEvent" <=> type # <<>>
    /\ oresp' = [status |-> status, readable |-> readable,
                 text |-> IF is_success(status) THEN "" ELSE "error body",
                 kind |-> kind, type |-> type]
    /\ opc' = "responded"
    /\ UNCHANGED <<oop, oargs, oresult, orequests, oparsed, ovalidated, ocalls>>
    /\ UNCHANGED <<clientVars, streamVars, eventVars, serverVars>>

\* request_oneshot reading the body of any response as JSON.
request_oneshot_status_unchecked ==
    /\ opc = "responded"
    /\ opc' = "json"
    /\ UNCHANGED <<oop, oargs, oresp, oresult, orequests, oparsed, ovalidated, ocalls>>
    /\ UNCHANGED <<clientVars, streamVars, eventVars, serverVars>>

\* request_oneshot after `.send().await`: the status decides which way the
\* body is read.
request_oneshot_status ==
    /\ opc = "responded"
    /\ opc' = IF is_success(oresp.status) THEN "json" ELSE "text"
    /\ UNCHANGED <<oop, oargs, oresp, oresult, orequests, oparsed, ovalidated, ocalls>>
    /\ UNCHANGED <<clientVars, streamVars, eventVars, serverVars>>

\* Success branch: response.json().await?, validate_response(..)?, Ok(result).
request_oneshot_json ==
    /\ opc = "json"
    /\ oparsed' = TRUE
    /\ IF ~json_ok(oop, oresp)
          THEN /\ oresult' = Err("ReqwestError", Str("decode"))
               /\ ovalidated' = FALSE
          ELSE /\ ovalidated' = TRUE
               /\ oresult' = IF validate_response(oop, json(oresp)).res = "Err"
                                THEN validate_response(oop, json(oresp))
                                ELSE facade(oop, json(oresp))
    /\ opc' = "done"
    /\ UNCHANGED <<oop, oargs, oresp, orequests, ocalls>>
    /\ UNCHANGED <<clientVars, streamVars, eventVars, serverVars>>

\* Failure branch: Err(DBApiError(status, text().await.unwrap_or_default())).
request_oneshot_text ==
    /\ opc = "text"
    /\ oresult' = Err("DBApiError",
                      [status |-> oresp.status, text |-> text_or_default(oresp)])
    /\ opc' = "done"
    /\ UNCHANGED <<oop, oargs, oresp, orequests, oparsed, ovalidated, ocalls>>
    /\ UNCHANGED <<clientVars, streamVars, eventVars, serverVars>>

NextOneShot ==
    \/ \E op \in OneShotOps, event_type \in {"", "io.eventsourcingdb.test"},
          schema_valid \in BOOLEAN : request_oneshot_send(op, event_type, schema_valid)
    \/ request_oneshot_send_error
    \/ \E status \in Statuses, readable \in BOOLEAN, kind \in BodyKinds,
          type \in ManagementTypes \cup {<<>>} :
              OneShotRespond(status, readable, kind, type)
    \/ request_oneshot_status
    \/ request_oneshot_json
    \/ request_oneshot_text

(***************************************************************************)
(* Event: Event::verify_hash and Event::verify_signature                   *)
(***************************************************************************)

\* A text is a sequence of tokens.  A token is a literal piece of text, or
\* stands for the text a digest, an encoding or a signature produces; dig
\* holds what it was produced from, so that two such tokens are equal only
\* when they were produced from the same input (the digest is collision-free).
Lit(s) == [lit |-> s, dig |-> <<>>]
Text(s) == <<Lit(s)>>

\* Sha256::digest(text): 32 bytes.
Sha256(text) == [lit |-> "sha256", dig |-> text]

\* hex::encode(bytes): lowercase hex text.
hex_encode(bytes) == <<[lit |-> "hex", dig |-> <<bytes>>]>>

\* The same hex text in upper case.
to_uppercase(text) == <<[lit |-> "uppercase", dig |-> text]>>

\* An Ed25519 signature (64 bytes) made with the private half of `key` over
\* `message`.
Sign(key, message) == [lit |-> key, dig |-> message]

Keys == {"key1", "key2"}

\* The number of bytes a byte string holds.
byte_len(bytes) ==
    CASE bytes.lit = "sha256" -> 32
      [] bytes.lit \in Keys -> 64
      [] OTHER -> 1

\* hex::decode(text): the bytes, or an error for text that is not hex.
hex_decode(text) ==
    IF Len(text) = 1 /\ text[1].lit = "hex"
        THEN Ok(text[1].dig[1])
        ELSE Err("FromHexError", Unit)

\* DateTime<Utc>::to_rfc3339_opts(SecondsFormat::Nanos, true): seconds, nine
\* digits of nanoseconds, and Z for the UTC offset.
to_rfc3339_opts(time) == <<Lit(time.sec), Lit("."), Lit(time.nano), Lit("Z")>>

\* format!("{}|{}|...") : the pieces joined by a literal `|`.
RECURSIVE format_joined(_)
format_joined(pieces) ==
    IF Len(pieces) = 0 THEN <<>>
    ELSE IF Len(pieces) = 1 THEN pieces[1]
    ELSE pieces[1] \o Text("|") \o format_joined(Tail(pieces))

\* str::strip_prefix
strip_prefix(text, prefix) ==
    IF Len(text) >= Len(prefix) /\ SubSeq(text, 1, Len(prefix)) = prefix
        THEN Ok(SubSeq(text, Len(prefix) + 1, Len(text)))
        ELSE Err("None", Unit)

SIGNATURE_PREFIX == Text("esdb:signature:v1:")

NoSignature == [some |-> FALSE, text |-> <<>>]
Some(text) == [some |-> TRUE, text |-> text]

\* The metadata string without the subject.
metadata_without_subject(e) ==
    format_joined(<<e.specversion, e.id, e.predecessorhash, to_rfc3339_opts(e.time),
                    e.source, e.ty, e.datacontenttype>>)

\* verify_hash: the metadata string.
metadata(e) ==
    format_joined(<<e.specversion, e.id, e.predecessorhash, to_rfc3339_opts(e.time),
                    e.source, e.subject, e.ty, e.datacontenttype>>)

\* final_hash_hex with the signature text digested after the metadata.
final_hash_hex_with_signature(e) ==
    LET metadata_hash_hex == hex_encode(Sha256(metadata(e) \o e.signature.text))
        data_hash_hex == hex_encode(Sha256(e.data.raw))
    IN hex_encode(Sha256(metadata_hash_hex \o data_hash_hex))

\* verify_hash: final_hash_hex.
final_hash_hex(e) ==
    LET metadata_hash_hex == hex_encode(Sha256(metadata(e)))
        data_hash_hex == hex_encode(Sha256(e.data.raw))
    IN hex_encode(Sha256(metadata_hash_hex \o data_hash_hex))

\* verify_hash with the two fields of its error exchanged.
verify_hash_exchanged(e) ==
    IF final_hash_hex(e) = e.hash
        THEN Ok(Unit)
        ELSE Err("HashVerificationFailed",
                 [expected |-> final_hash_hex(e), actual |-> e.hash])

\* Event::verify_hash
verify_hash(e) ==
    IF final_hash_hex(e) = e.hash
        THEN Ok(Unit)
        ELSE Err("HashVerificationFailed",
                 [expected |-> e.hash, actual |-> final_hash_hex(e)])

\* VerifyingKey::verify(message, signature)
verify(public_key, message, signature) == signature = Sign(public_key, message)

\* The conversion `?` applies to the error of VerifyingKey::verify.
signature_error == Err("SignatureVerificationFailed", Unit)

\* verify_signature looking at the signature text before the hash.
verify_signature_text_first(e, public_key) ==
    IF ~e.signature.some THEN Err("MissingSignature", Unit)
    ELSE LET stripped == strip_prefix(e.signature.text, SIGNATURE_PREFIX)
             decoded == hex_decode(stripped.val)
         IN IF stripped.res = "Err" THEN Err("MalformedSignature", Unit)
            ELSE IF decoded.res = "Err" THEN Err("MalformedSignature", Unit)
            ELSE IF byte_len(decoded.val) # 64 THEN Err("MalformedSignature", Unit)
            ELSE IF verify_hash(e).res = "Err" THEN verify_hash(e)
            ELSE IF verify(public_key, e.hash, decoded.val) THEN Ok(Unit)
            ELSE signature_error

\* verify_signature handing decoded bytes of any length to the key.
verify_signature_any_length(e, public_key) ==
    IF ~e.signature.some THEN Err("MissingSignature", Unit)
    ELSE IF verify_hash(e).res = "Err" THEN verify_hash(e)
    ELSE LET stripped == strip_prefix(e.signature.text, SIGNATURE_PREFIX)
             decoded == hex_decode(stripped.val)
         IN IF stripped.res = "Err" THEN Err("MalformedSignature", Unit)
            ELSE IF decoded.res = "Err" THEN Err("MalformedSignature", Unit)
            ELSE IF verify(public_key, e.hash, decoded.val) THEN Ok(Unit)
            ELSE signature_error

\* Event::verify_signature: a missing signature, then the hash, then the
\* prefix, the hex text, its length, and last the key.
verify_signature(e, public_key) ==
    IF ~e.signature.some THEN Err("MissingSignature", Unit)
    ELSE IF verify_hash(e).res = "Err" THEN verify_hash(e)
    ELSE LET stripped == strip_prefix(e.signature.text, SIGNATURE_PREFIX)
             decoded == hex_decode(stripped.val)
         IN IF stripped.res = "Err" THEN Err("MalformedSignature", Unit)
            ELSE IF decoded.res = "Err" THEN Err("MalformedSignature", Unit)
            ELSE IF byte_len(decoded.val) # 64 THEN Err("MalformedSignature", Unit)
            ELSE IF verify(public_key, e.hash, decoded.val) THEN Ok(Unit)
            ELSE signature_error

\* serde_json::from_str(raw): the value a raw JSON text denotes; white space
\* between the tokens of the text does not change it.
from_str(raw) ==
    CASE raw = Text("{\"value\":1}") -> "value-1"
      [] raw = Text("{ \"value\" : 1 }") -> "value-1"
      [] OTHER -> "value-2"

\* CustomValue::deserialize: the raw text is kept next to the parsed value.
CustomValue(raw) == [raw |-> raw, parsed |-> from_str(raw)]

RawTexts == {Text("{\"value\":1}"), Text("{ \"value\" : 1 }"), Text("{\"value\":2}")}

Times == {[sec |-> "2025-01-01T00:00:00", nano |-> "000000000"],
          [sec |-> "2025-01-01T00:00:00", nano |-> "000000001"]}

ZeroHash == Text("0000000000000000000000000000000000000000000000000000000000000000")

\* The values a field of an Event is drawn from.
FieldValues(field) ==
    CASE field = "specversion" -> {Text("1.0"), Text("1.1")}
      [] field = "id" -> {Text("0"), Text("1")}
      [] field = "predecessorhash" -> {ZeroHash, hex_encode(Sha256(Text("predecessor")))}
      [] field = "time" -> Times
      [] field = "source" -> {Text("s"), Text("s") \o Text("|") \o Text("t")}
      [] field = "subject" -> {Text("t") \o Text("|") \o Text("u"), Text("u")}
      [] field = "ty" -> {Text("io.test"), Text("io.other")}
      [] field = "datacontenttype" -> {Text("application/json"), Text("text/plain")}
      [] field = "data" -> {CustomValue(raw) : raw \in RawTexts}

HashedFields == {"specversion", "id", "predecessorhash", "time", "source", "subject",
                 "ty", "datacontenttype", "data"}

\* The texts a signature field is drawn from, for an event with hash `hash`.
SignatureTexts(hash) ==
    {SIGNATURE_PREFIX \o hex_encode(Sign("key1", hash)),
     SIGNATURE_PREFIX \o hex_encode(Sign("key1", Text("another hash"))),
     hex_encode(Sign("key1", hash)),
     Text("ESDB:SIGNATURE:V1:") \o hex_encode(Sign("key1", hash)),
     SIGNATURE_PREFIX \o Text("not hex"),
     SIGNATURE_PREFIX \o hex_encode(Sha256(hash)),
     SIGNATURE_PREFIX}

\* The texts a hash field is drawn from, for the event e.
HashTexts(e) == {final_hash_hex(e), to_uppercase(final_hash_hex(e)), Text("BROKEN")}

\* A key that a JSON object does not hold.
Absent == "(absent)"

\* TraceInfo, an untagged enum: WithState { traceparent, tracestate } or
\* Traceparent { traceparent }; None for an event without trace info.
NoTraceInfo == [v |-> "None", traceparent |-> Absent, tracestate |-> Absent]
Traceparent(tp) == [v |-> "Traceparent", traceparent |-> tp, tracestate |-> Absent]
WithState(tp, ts) == [v |-> "WithState", traceparent |-> tp, tracestate |-> ts]

TraceInfos == {NoTraceInfo, Traceparent("00-0af7-b7ad-01"),
               WithState("00-0af7-b7ad-01", "state=12345")}

\* The JSON values of the key `signature`: null or a string.
JsonNull == [null |-> TRUE, text |-> <<>>]
JsonString(text) == [null |-> FALSE, text |-> text]

\* serde_json::to_string of a data value: the compact JSON text.
to_string(value) ==
    IF value = "value-1" THEN Text("{\"value\":1}") ELSE Text("{\"value\":2}")

\* Serialize for DateTime<Utc>: RFC 3339 with Z for the offset; the fraction
\* of the second is written only when it is not zero.
serialize_time(time) ==
    IF time.nano = "000000000"
        THEN <<Lit(time.sec), Lit("Z")>>
        ELSE <<Lit(time.sec), Lit("."), Lit(time.nano), Lit("Z")>>

\* Deserialize for DateTime<Utc>: the instant an RFC 3339 text names.
deserialize_time(text) ==
    IF Len(text) = 4
        THEN [sec |-> text[1].lit, nano |-> text[3].lit]
        ELSE [sec |-> text[1].lit, nano |-> "000000000"]

\* An event serialized with its data written anew from the parsed value.
serialize_event_from_parsed(e) ==
    [data |-> to_string(e.data.parsed), datacontenttype |-> e.datacontenttype,
     hash |-> e.hash, id |-> e.id, predecessorhash |-> e.predecessorhash,
     source |-> e.source, specversion |-> e.specversion, subject |-> e.subject,
     time |-> serialize_time(e.time),
     traceparent |-> e.traceinfo.traceparent, tracestate |-> e.traceinfo.tracestate,
     type |-> e.ty,
     signature |-> IF e.signature.some THEN JsonString(e.signature.text) ELSE JsonNull]

\* Serialize for Event: data as its raw text (CustomValue::serialize), the
\* keys of the trace info flattened into the object, `type` for ty, and null
\* for a signature that is None.
serialize_event(e) ==
    [data |-> e.data.raw, datacontenttype |-> e.datacontenttype,
     hash |-> e.hash, id |-> e.id, predecessorhash |-> e.predecessorhash,
     source |-> e.source, specversion |-> e.specversion, subject |-> e.subject,
     time |-> serialize_time(e.time),
     traceparent |-> e.traceinfo.traceparent, tracestate |-> e.traceinfo.tracestate,
     type |-> e.ty,
     signature |-> IF e.signature.some THEN JsonString(e.signature.text) ELSE JsonNull]

\* Deserialize for the flattened Option<TraceInfo>: the untagged variants in
\* their order, None when neither fits.
deserialize_traceinfo(doc) ==
    IF doc.traceparent # Absent /\ doc.tracestate # Absent
        THEN WithState(doc.traceparent, doc.tracestate)
    ELSE IF doc.traceparent # Absent
        THEN Traceparent(doc.traceparent)
    ELSE NoTraceInfo

\* An event deserialized with hash and predecessorhash taken from each
\* other's key.
deserialize_event_hashes_exchanged(doc) ==
    [data |-> CustomValue(doc.data), datacontenttype |-> doc.datacontenttype,
     hash |-> doc.predecessorhash, id |-> doc.id, predecessorhash |-> doc.hash,
     source |-> doc.source, specversion |-> doc.specversion, subject |-> doc.subject,
     time |-> deserialize_time(doc.time),
     traceinfo |-> deserialize_traceinfo(doc),
     ty |-> doc.type,
     signature |-> IF doc.signature.null THEN NoSignature ELSE Some(doc.signature.text)]

\* Deserialize for Event: data keeps the raw text of the key next to its
\* parsed value (CustomValue::deserialize).
deserialize_event(doc) ==
    [data |-> CustomValue(doc.data), datacontenttype |-> doc.datacontenttype,
     hash |-> doc.hash, id |-> doc.id, predecessorhash |-> doc.predecessorhash,
     source |-> doc.source, specversion |-> doc.specversion, subject |-> doc.subject,
     time |-> deserialize_time(doc.time),
     traceinfo |-> deserialize_traceinfo(doc),
     ty |-> doc.type,
     signature |-> IF doc.signature.null THEN NoSignature ELSE Some(doc.signature.text)]

\* PartialEq for CustomValue: the parsed values are compared, the raw texts
\* are not.
custom_value_eq(a, b) == a.parsed = b.parsed

\* #[derive(PartialEq)] for Event: field by field.
event_eq(a, b) ==
    /\ custom_value_eq(a.data, b.data)
    /\ a.datacontenttype = b.datacontenttype
    /\ a.hash = b.hash
    /\ a.id = b.id
    /\ a.predecessorhash = b.predecessorhash
    /\ a.source = b.source
    /\ a.specversion = b.specversion
    /\ a.subject = b.subject
    /\ a.time = b.time
    /\ a.traceinfo = b.traceinfo
    /\ a.ty = b.ty
    /\ a.signature = b.signature

\* An event as the server issues it: the hash is the canonical one, and the
\* signature, when the server signs, is made over that hash.
Issued(data, signed, traceinfo) ==
    LET e == [specversion |-> Text("1.0"), id |-> Text("0"),
              predecessorhash |-> ZeroHash,
              time |-> [sec |-> "2025-01-01T00:00:00", nano |-> "000000000"],
              source |-> Text("s"), subject |-> Text("u"), ty |-> Text("io.test"),
              datacontenttype |-> Text("application/json"),
              data |-> data, hash |-> <<>>, signature |-> NoSignature,
              traceinfo |-> traceinfo]
        h == final_hash_hex(e)
    IN [e EXCEPT !.hash = h,
                 !.signature = IF signed
                                 THEN Some(SIGNATURE_PREFIX \o hex_encode(Sign("key1", h)))
                                 ELSE NoSignature]

IssuedEvents ==
    {Issued(data, signed, traceinfo) :
        data \in FieldValues("data"), signed \in BOOLEAN, traceinfo \in TraceInfos}

NoKey == "none"

EventInit ==
    /\ ev \in IssuedEvents
    /\ other = ev
    /\ vop = "none"
    /\ vkey = NoKey
    /\ vresult = NoResult
    /\ nchanged = 0

\* The event is not under examination in the specifications of the client.
EventIdle ==
    /\ ev = Issued(CustomValue(Text("{\"value\":1}")), FALSE, NoTraceInfo)
    /\ other = ev
    /\ vop = "none"
    /\ vkey = NoKey
    /\ vresult = NoResult
    /\ nchanged = 0

\* One field of the event is replaced by another value (the event arrives
\* changed, or is rebuilt from changed JSON as in verify_broken_event_hash).
Change(field, value) ==
    /\ nchanged < MaxChanges
    /\ value # ev[field]
    /\ ev' = [ev EXCEPT ![field] = value]
    /\ nchanged' = nchanged + 1
    /\ other' = ev'
    /\ vop' = "none"
    /\ vkey' = NoKey
    /\ vresult' = NoResult
    /\ UNCHANGED <<clientVars, streamVars, oneshotVars, serverVars>>

ChangeHashedField ==
    \E field \in HashedFields : \E value \in FieldValues(field) : Change(field, value)

ChangeHash == \E value \in HashTexts(ev) : Change("hash", value)

ChangeSignature ==
    \E value \in {NoSignature} \cup {Some(t) : t \in SignatureTexts(ev.hash)} :
        Change("signature", value)

\* event.verify_hash() is called.
VerifyHash ==
    /\ vop = "none"
    /\ vop' = "verify_hash"
    /\ vresult' = verify_hash(ev)
    /\ UNCHANGED <<ev, vkey, nchanged, other>>
    /\ UNCHANGED <<clientVars, streamVars, oneshotVars, serverVars>>

\* event.verify_signature(&public_key) is called.
VerifySignature(public_key) ==
    /\ vop = "none"
    /\ vop' = "verify_signature"
    /\ vkey' = public_key
    /\ vresult' = verify_signature(ev, public_key)
    /\ UNCHANGED <<ev, nchanged, other>>
    /\ UNCHANGED <<clientVars, streamVars, oneshotVars, serverVars>>

\* serde_json::to_string(&event) followed by serde_json::from_str of the text.
RoundTrip ==
    /\ vop = "none"
    /\ vop' = "round_trip"
    /\ other' = deserialize_event(serialize_event(ev))
    /\ UNCHANGED <<ev, vkey, vresult, nchanged>>
    /\ UNCHANGED <<clientVars, streamVars, oneshotVars, serverVars>>

\* The values the text of a key is replaced by.
EditedKeys == {"data", "hash", "traceparent", "tracestate", "signature"}
EditedValues(key, e) ==
    CASE key = "data" -> RawTexts
      [] key = "hash" -> {Text("BROKEN")}
      [] key = "traceparent" -> {Absent, "00-0af7-b7ad-01"}
      [] key = "tracestate" -> {Absent, "state=12345"}
      [] key = "signature" ->
            {JsonNull, JsonString(SIGNATURE_PREFIX \o hex_encode(Sign("key1", e.hash)))}

\* The event is serialized, the text of one key is replaced by another, and
\* the result is parsed as an Event (as verify_broken_event_hash does with
\* the hash).
Reparse(key, value) ==
    /\ vop = "none"
    /\ serialize_event(ev)[key] # value
    /\ vop' = "reparse"
    /\ other' = deserialize_event([serialize_event(ev) EXCEPT ![key] = value])
    /\ UNCHANGED <<ev, vkey, vresult, nchanged>>
    /\ UNCHANGED <<clientVars, streamVars, oneshotVars, serverVars>>

NextEvent ==
    \/ ChangeHashedField
    \/ ChangeHash
    \/ ChangeSignature
    \/ VerifyHash
    \/ \E public_key \in Keys : VerifySignature(public_key)
    \/ RoundTrip
    \/ \E key \in EditedKeys : \E value \in EditedValues(key, ev) : Reparse(key, value)

\* ReadEventsOptions, as far as recursive and order go; None for no options.
NoOptions == [some |-> FALSE, recursive |-> FALSE, order |-> "None"]
ReadEventsOptions(recursive, order) == [some |-> TRUE, recursive |-> recursive, order |-> order]

\* No read_events call was made since the last write.
NoRead == [called |-> FALSE, subject |-> <<>>, options |-> NoOptions, items |-> <<>>]

\* No database is involved in the specifications of a single call.
ServerIdle ==
    /\ db = <<>>
    /\ cursor = 0
    /\ snap = 0
    /\ wcands = <<>>
    /\ wresult = NoResult
    /\ wpre = <<>>
    /\ wreqs = <<>>
    /\ wlog = <<>>
    /\ rcall = NoRead

ClientInit ==
    /\ base_url \in BaseUrls
    /\ api_token \in ApiTokens

InitStreaming == ClientInit /\ StreamInit /\ OneShotInit /\ EventIdle /\ ServerIdle
SpecStreaming == InitStreaming /\ [][NextStreaming]_vars

InitOneShot == ClientInit /\ StreamInit /\ OneShotInit /\ EventIdle /\ ServerIdle
SpecOneShot == InitOneShot /\ [][NextOneShot]_vars

\* The methods of one received event; no client call is under way.
ClientIdle ==
    /\ base_url = "http://localhost:3000/"
    /\ api_token = "secrettoken"
InitEvent == ClientIdle /\ StreamInit /\ OneShotInit /\ EventInit /\ ServerIdle
SpecEvent == InitEvent /\ [][NextEvent]_vars

(***************************************************************************)
(* Properties of a streaming call                                          *)
(***************************************************************************)

\* The items the decoder delivered for the i-th line it read.
ItemsOf(i) ==
    LET from == SelectSeq(delivered, LAMBDA d : d.src = i)
    IN [k \in 1..Len(from) |-> from[k].item]

IsErrorLine(l) == l.json /\ l.tag = "error" /\ l.payload.kind = "error"
IsHeartbeatLine(l) == l.json /\ l.tag = "heartbeat" /\ l.payload = NoPayload
IsDataLine(op, l) == l.json /\ l.tag = ExpectedTag(op) /\ l.payload \in ItemPayloads(op)

\* The item of the operation's item type that a data payload stands for.
ItemOf(op, payload) == IF op = "list_subjects" THEN Str(payload.val) ELSE payload

\* The values of the Ok items delivered so far, in order.
OkValues ==
    LET oks == SelectSeq(delivered, LAMBDA d : d.item.res = "Ok")
    IN [k \in 1..Len(oks) |-> oks[k].item.val]

\* The items of the data lines read so far, in order.
DataItems ==
    LET ds == SelectSeq(lines, LAMBDA l : IsDataLine(sop, l))
    IN [k \in 1..Len(ds) |-> ItemOf(sop, ds[k].payload)]

\* C1: an `error` line yields an error item and nothing is delivered for any
\* line after it.
C1_ErrorLineIsTerminal ==
    \A i \in 1..Len(lines) :
        IsErrorLine(lines[i]) =>
            /\ \E k \in 1..Len(delivered) :
                   delivered[k].src = i /\ delivered[k].item.res = "Err"
            /\ \A k \in 1..Len(delivered) : delivered[k].src <= i

\* C2: a `heartbeat` line yields nothing, for every streaming operation; two
\* data lines with a heartbeat between them yield exactly their two items.
C2_HeartbeatYieldsNothing ==
    /\ \A i \in 1..Len(lines) : IsHeartbeatLine(lines[i]) => ItemsOf(i) = <<>>
    /\ ( /\ Len(lines) = 3
         /\ IsDataLine(sop, lines[1])
         /\ IsHeartbeatLine(lines[2])
         /\ IsDataLine(sop, lines[3]) )
       => [k \in 1..Len(delivered) |-> delivered[k].item]
             = <<Ok(ItemOf(sop, lines[1].payload)), Ok(ItemOf(sop, lines[3].payload))>>

\* C3: the Ok items delivered are exactly the payloads of the data lines the
\* decoder has read, in the order the server sent them.
C3_OkItemsAreDataLines == OkValues = DataItems

\* C4: an `error` line with payload {error: m} is delivered as
\* Err(DBError(m)), by every streaming operation.
C4_ErrorLineIsDBError ==
    \A i \in 1..Len(lines) :
        IsErrorLine(lines[i]) => ItemsOf(i) = <<Err("DBError", Str(lines[i].payload.val))>>

\* C5: a line with the operation's expected tag yields Ok of exactly its
\* payload, without the envelope.
C5_DataLineYieldsPayload ==
    \A i \in 1..Len(lines) :
        IsDataLine(sop, lines[i]) => ItemsOf(i) = <<Ok(ItemOf(sop, lines[i].payload))>>

\* C6: a line whose tag is neither the expected tag nor `error` nor
\* `heartbeat` yields Err(InvalidResponseType(tag)), whatever its payload.
C6_OtherTagIsInvalidResponseType ==
    \A i \in 1..Len(lines) :
        (lines[i].json /\ lines[i].tag \notin {ExpectedTag(sop), "error", "heartbeat"})
            => ItemsOf(i) = <<Err("InvalidResponseType", Str(lines[i].tag))>>

\* What holds of a streaming call in every state: a non-success status has
\* produced Err(DBApiError(status, body text)) and no stream, and no line is
\* read or delivered unless a stream was returned for a success status.
StatusChecked ==
    /\ (spc \in {"streaming", "ended", "done"} /\ sresp # NoResponse
            /\ ~is_success(sresp.status))
         => /\ spc = "done"
            /\ sresult = Err("DBApiError",
                   [status |-> sresp.status,
                    text |-> IF sresp.readable THEN sresp.text ELSE ""])
    /\ sresult.res = "Ok" => (is_success(sresp.status) /\ sresult = Ok(StreamHandle))
    /\ (lines # <<>> \/ delivered # <<>> \/ polling) => sresult = Ok(StreamHandle)
    /\ spc \in {"idle", "sending", "responded"} => sresult = NoResult

\* C7: a non-success status makes request_streaming return
\* Err(DBApiError(status, body text)) once and no stream; the status is
\* checked before any line is read, and what the call returned never changes.
C7_StatusCheckedBeforeStreaming ==
    /\ []StatusChecked
    /\ [][sresult # NoResult => sresult' = sresult]_vars

\* C7: a call was answered 401 and returned the DBApiError.
C7_Witness ==
    /\ spc = "done"
    /\ sresp.status = 401
    /\ sresult.kind = "DBApiError"

(***************************************************************************)
(* Properties of one-shot calls                                            *)
(***************************************************************************)

\* A response arrived in the current invocation and the call has returned.
Answered == opc = "done" /\ oresp # NoBody

\* C8: an invocation of a one-shot operation sends at most one HTTP request;
\* a transport failure ends the call with an error, after that one request.
C8_AtMostOneRequest ==
    /\ orequests <= 1
    /\ oresult = Err("ReqwestError", Str("send")) => (opc = "done" /\ orequests = 1)
    /\ opc \in {"sending", "responded", "json", "text"} => orequests = 1

\* C8: a call failed in the transport and has returned its error.
C8_Witness ==
    /\ opc = "done"
    /\ oresult = Err("ReqwestError", Str("send"))
    /\ orequests = 1

\* C9: request_oneshot classifies in a fixed order: status, then parse, then
\* the validation predicate; Ok only when all three passed.
C9_ClassificationOrder ==
    Answered =>
        /\ ~is_success(oresp.status) =>
              /\ oresult = Err("DBApiError",
                     [status |-> oresp.status,
                      text |-> IF oresp.readable THEN oresp.text ELSE ""])
              /\ ~oparsed
              /\ ~ovalidated
        /\ (is_success(oresp.status) /\ ~(oresp.readable /\ oresp.kind = Response(oop))) =>
              /\ oresult = Err("ReqwestError", Str("decode"))
              /\ oparsed
              /\ ~ovalidated
        /\ (is_success(oresp.status) /\ oresp.readable /\ oresp.kind = Response(oop)) =>
              /\ ovalidated
              /\ oresult.res = "Err" => oresult = Err(SemanticError(oop), Unit)
              /\ oresult.res = "Ok" => validate_response(oop, json(oresp)).res = "Ok"
              /\ validate_response(oop, json(oresp)).res = "Err" => oresult.res = "Err"
        /\ oresult.res = "Ok" =>
              (is_success(oresp.status) /\ oparsed /\ ovalidated)

\* C9: verify_api_token was answered 401 and returned the DBApiError.
C9_Witness ==
    /\ Answered
    /\ oop = "verify_api_token"
    /\ oresp.status = 401
    /\ oresult.kind = "DBApiError"

\* The response parsed as a management event under a success status.
ParsedManagementEvent ==
    /\ Answered
    /\ oop \in {"ping", "verify_api_token", "register_event_schema"}
    /\ is_success(oresp.status)
    /\ json_ok(oop, oresp)

\* C10 as claimed: Ok exactly when the type ends with the acknowledgement
\* word of the operation, else the operation's semantic error.
C10_OkIffTypeEndsWith ==
    ParsedManagementEvent =>
        IF EndsWith(oresp.type, Tail(AcknowledgementType(oop)))
            THEN oresult.res = "Ok"
            ELSE oresult = Err(SemanticError(oop), Unit)

\* C10 amended: Ok exactly when the type equals the full acknowledgement
\* type io.eventsourcingdb.api.<word>, else the operation's semantic error.
C10_OkIffTypeEquals ==
    ParsedManagementEvent =>
        IF oresp.type = <<"io.eventsourcingdb.api.",
                           CASE oop = "ping" -> "ping-received"
                             [] oop = "verify_api_token" -> "api-token-verified"
                             [] oop = "register_event_schema" -> "event-schema-registered">>
            THEN oresult.res = "Ok"
            ELSE oresult = Err(SemanticError(oop), Unit)

\* C10: ping received a type that ends with ping-received under another
\* prefix, and failed.
C10_Witness ==
    /\ ParsedManagementEvent
    /\ oop = "ping"
    /\ oresp.type = <<"com.example.", "ping-received">>
    /\ oresult = Err("PingFailed", Unit)

\* C11: a register_event_schema call with an empty event type returns
\* InvalidEventType, one with a non-empty type and a schema that is not a valid
\* JSON Schema returns JsonSchemaError; both send no request, and a request
\* has gone out only when both local checks passed.
C11_LocalChecksBeforeRequest ==
    oop = "register_event_schema" =>
        /\ oargs.event_type = "" =>
              /\ oresult = Err("InvalidEventType", Unit)
              /\ orequests = 0
              /\ opc = "done"
        /\ (oargs.event_type # "" /\ ~oargs.schema_valid) =>
              /\ oresult = Err("JsonSchemaError", Unit)
              /\ orequests = 0
              /\ opc = "done"
        /\ orequests > 0 => (oargs.event_type # "" /\ oargs.schema_valid)

C11_Witness ==
    /\ oop = "register_event_schema"
    /\ oargs.event_type # ""
    /\ ~oargs.schema_valid
    /\ oresult = Err("JsonSchemaError", Unit)
    /\ orequests = 0

\* C13: once the caller has dropped a streaming sequence, no further line is
\* read from the transport and no item is delivered, whatever the server had
\* already written; this holds wherever in the stream the drop happens.
C13_NothingAfterDrop ==
    [][spc = "dropped" =>
          /\ spc' = "dropped"
          /\ lines' = lines
          /\ delivered' = delivered
          /\ wire' = wire
          /\ ~polling']_vars

\* An observe_events stream dropped in the middle: lines were read, and
\* lines the server has written are still unread.
C13_Witness ==
    /\ sop = "observe_events"
    /\ spc = "dropped"
    /\ lines # <<>>
    /\ wire # <<>>
    /\ ~closed

\* C14: a line is decoded only in a step in which the caller is waiting for
\* the next item, one line at a time, and the wait ends exactly when the line
\* gave an item, which that step delivers: between two requests no decoded
\* item is held back, and without a poll no line is decoded.
C14_DemandDriven ==
    [][lines' # lines =>
          /\ polling
          /\ lines' = Append(lines, Head(wire))
          /\ (~polling') <=> (Len(delivered') = Len(delivered) + 1)
          /\ polling' => delivered' = delivered]_vars

\* The caller is not polling while the server's lines wait unread, after
\* an earlier item was delivered.
C14_Witness ==
    /\ spc = "streaming"
    /\ ~polling
    /\ delivered # <<>>
    /\ Len(wire) >= 2

NonHeartbeatLines == {i \in 1..Len(lines) : ~IsHeartbeatLine(lines[i])}

\* C28: a line that is not JSON yields exactly one decode error, lines after
\* it are still decoded, and the number of delivered items is the number of
\* lines read that are not heartbeats.
C28_OneItemPerNonHeartbeatLine ==
    /\ \A i \in 1..Len(lines) :
          (lines[i] # IoFailure /\ ~lines[i].json)
              => ItemsOf(i) = <<Err("SerdeJsonError", Unit)>>
    /\ Len(delivered) = Cardinality(NonHeartbeatLines)

(***************************************************************************)
(* Two calls on one Client: a streaming call and a one-shot call whose     *)
(* steps interleave in every order.  Both borrow the Client immutably      *)
(* (&self); each owns its request and its response.                        *)
(***************************************************************************)

ConcurrentStreamingOps == {"observe_events"}
ConcurrentOneShotOps == {"ping", "write_events"}

\* A step of the streaming call.
StreamingStep ==
    /\ NextStreaming
    /\ sop' \in ConcurrentStreamingOps
    /\ nsent' <= MaxConcurrentLines

\* A step of the one-shot call; it is the only one-shot call made.
OneShotStep ==
    /\ NextOneShot
    /\ oop' \in ConcurrentOneShotOps
    /\ ocalls' = 1

NextConcurrent ==
    \/ StreamingStep
    \/ OneShotStep

InitConcurrent == ClientInit /\ StreamInit /\ OneShotInit /\ EventIdle /\ ServerIdle
SpecConcurrent == InitConcurrent /\ [][NextConcurrent]_vars

(***************************************************************************)
(* The client against a database: write_events, read_events and            *)
(* observe_events with the server's side of the exchange.  The server is   *)
(* not part of the repository; its behaviour is the one the specification  *)
(* and the tests (src/tests) expect of it.                                 *)
(***************************************************************************)

\* ClientRequest::URL_PATH of the requests of this part.
URL_PATH(op) ==
    CASE op = "read_events" -> "/api/v1/read-events"
      [] op = "observe_events" -> "/api/v1/read-events"
      [] op = "write_events" -> "/api/v1/write-events"
      [] OTHER -> ""

\* The server answers a request to the path of read_events as a read: the
\* events the database holds at that moment, then the end of the body.  Only
\* a request it can tell from a read is held open for later events.
answered_as_read(path) == path = "/api/v1/read-events"

\* The text of a subject: its segments, each after a `/`.
RECURSIVE Subject(_)
Subject(segments) ==
    IF segments = <<>> THEN <<>>
    ELSE <<Lit("/"), Lit(Head(segments))>> \o Subject(Tail(segments))

\* The candidates a caller writes (EventCandidate::builder).
EventCandidates ==
    {[source |-> Text("https://www.eventsourcingdb.io"), subject |-> Subject(<<"test">>),
      ty |-> Text("io.eventsourcingdb.test"), data |-> "value-1",
      traceinfo |-> NoTraceInfo],
     [source |-> Text("https://www.eventsourcingdb.io"), subject |-> Subject(<<"test">>),
      ty |-> Text("io.eventsourcingdb.other"), data |-> "value-2",
      traceinfo |-> Traceparent("00-0af7-b7ad-01")],
     [source |-> Text("https://example.org"), subject |-> Subject(<<"test", "sub">>),
      ty |-> Text("io.eventsourcingdb.test"), data |-> "value-1",
      traceinfo |-> WithState("00-0af7-b7ad-01", "state=12345")]}

\* The non-empty candidate lists of up to n candidates.
RECURSIVE CandidateLists(_)
CandidateLists(n) ==
    IF n = 0 THEN {}
    ELSE {<<c>> : c \in EventCandidates}
         \cup {<<c>> \o l : c \in EventCandidates, l \in CandidateLists(n - 1)}

\* A candidate serialized without its trace info.
serialize_candidate_untraced(c) ==
    [data |-> to_string(c.data), source |-> c.source, subject |-> c.subject,
     type |-> c.ty, traceparent |-> Absent, tracestate |-> Absent]

\* Serialize for EventCandidate: data, source, subject, `type` for ty, and
\* the keys of the trace info flattened into the object (none when it is None).
serialize_candidate(c) ==
    [data |-> to_string(c.data), source |-> c.source, subject |-> c.subject,
     type |-> c.ty, traceparent |-> c.traceinfo.traceparent,
     tracestate |-> c.traceinfo.tracestate]

\* The id the server gives the n-th event of the database (counted from 0).
IdText(n) == Text(ToString(n))

\* The time of the server's clock when it stores the n-th event.
ServerTime(n) ==
    [sec |-> "2025-01-01T00:00:00",
     nano |-> IF n % 2 = 0 THEN "000000000" ELSE "000000001"]

\* The server stores one event of a write request as the event with number n:
\* it assigns the id, the time, the hash of the event before it and the hash
\* of the event itself, and keeps what the candidate said.
Stored(doc, n, predecessorhash) ==
    LET e == [specversion |-> Text("1.0"), id |-> IdText(n),
              predecessorhash |-> predecessorhash, time |-> ServerTime(n),
              source |-> doc.source, subject |-> doc.subject, ty |-> doc.type,
              datacontenttype |-> Text("application/json"),
              data |-> CustomValue(doc.data), hash |-> <<>>,
              signature |-> NoSignature, traceinfo |-> deserialize_traceinfo(doc)]
    IN serialize_event([e EXCEPT !.hash = final_hash_hex(e)])

\* The server appends the events of a write request to its log, one after
\* the other in the order of the array.
RECURSIVE StoreAll(_, _)
StoreAll(events, log) ==
    IF events = <<>> THEN log
    ELSE StoreAll(Tail(events),
                  Append(log, Stored(Head(events), Len(log),
                                     IF log = <<>> THEN ZeroHash
                                     ELSE log[Len(log)].hash)))

\* The line the server writes for a stored event.
EventLine(stored) == Line("event", JsonValue("event", stored.id))

ObservedSubject == Subject(<<"test">>)

\* enum Precondition.
IsSubjectPristine(subject) == [v |-> "IsSubjectPristine", subject |-> subject]
IsSubjectOnEventId(subject, event_id) ==
    [v |-> "IsSubjectOnEventId", subject |-> subject, event_id |-> event_id]
IsEventQLTrue(query) == [v |-> "IsEventQLTrue", query |-> query]

\* A query that is true of a database without events.
QueryNoEvents == Text("FROM e IN events PROJECT INTO COUNT() == 0")

\* The preconditions a caller gives.
Preconditions ==
    {IsSubjectPristine(Subject(<<"test">>)),
     IsSubjectOnEventId(Subject(<<"test">>), Text("0")),
     IsSubjectOnEventId(Subject(<<"test">>), Text("1")),
     IsEventQLTrue(QueryNoEvents)}

\* The precondition lists of up to n preconditions.
RECURSIVE PreconditionLists(_)
PreconditionLists(n) ==
    IF n = 0 THEN {<<>>}
    ELSE {<<>>} \cup {<<p>> \o l : p \in Preconditions, l \in PreconditionLists(n - 1)}

\* A precondition serialized under the name of its variant.
serialize_precondition_variant_name(p) ==
    CASE p.v = "IsSubjectPristine" ->
            [type |-> "IsSubjectPristine", payload |-> [subject |-> p.subject]]
      [] p.v = "IsSubjectOnEventId" ->
            [type |-> "IsSubjectOnEventId",
             payload |-> [subject |-> p.subject, eventId |-> p.event_id]]
      [] p.v = "IsEventQLTrue" ->
            [type |-> "IsEventQLTrue", payload |-> [query |-> p.query]]

\* A precondition serialized with the field event_id under its own name.
serialize_precondition_field_name(p) ==
    CASE p.v = "IsSubjectPristine" ->
            [type |-> "isSubjectPristine", payload |-> [subject |-> p.subject]]
      [] p.v = "IsSubjectOnEventId" ->
            [type |-> "isSubjectOnEventId",
             payload |-> [subject |-> p.subject, event_id |-> p.event_id]]
      [] p.v = "IsEventQLTrue" ->
            [type |-> "isEventQlTrue", payload |-> [query |-> p.query]]

\* Serialize for Precondition: #[serde(tag = "type", content = "payload")]
\* with the renamed variants and eventId for event_id.
serialize_precondition(p) ==
    CASE p.v = "IsSubjectPristine" ->
            [type |-> "isSubjectPristine", payload |-> [subject |-> p.subject]]
      [] p.v = "IsSubjectOnEventId" ->
            [type |-> "isSubjectOnEventId",
             payload |-> [subject |-> p.subject, eventId |-> p.event_id]]
      [] p.v = "IsEventQLTrue" ->
            [type |-> "isEventQlTrue", payload |-> [query |-> p.query]]

\* A body of write_events that leaves the preconditions out.
write_events_body_without_preconditions(candidates, preconditions) ==
    [events |-> [i \in 1..Len(candidates) |-> serialize_candidate(candidates[i])],
     preconditions |-> <<>>]

\* WriteEventsRequest::body: the candidates and the preconditions as JSON
\* arrays, each in the order of its Vec.
write_events_body(candidates, preconditions) ==
    [events |-> [i \in 1..Len(candidates) |-> serialize_candidate(candidates[i])],
     preconditions |-> [i \in 1..Len(preconditions) |->
                           serialize_precondition(preconditions[i])]]

\* The request of Client::write_events: one POST of the body to URL_PATH.
write_events_request(candidates, preconditions) ==
    [method |-> "POST", path |-> URL_PATH("write_events"),
     body |-> write_events_body(candidates, preconditions)]

\* The numbers of the events of the log that are on the subject.
OnSubject(log, subject) == {k \in 1..Len(log) : log[k].subject = subject}

\* The greatest number of a non-empty set of numbers.
Latest(numbers) == CHOOSE k \in numbers : \A j \in numbers : j <= k

\* The server can read the precondition.
well_formed(p) ==
    \/ p.type = "isSubjectPristine" /\ DOMAIN p.payload = {"subject"}
    \/ p.type = "isSubjectOnEventId" /\ DOMAIN p.payload = {"subject", "eventId"}
    \/ p.type = "isEventQlTrue" /\ DOMAIN p.payload = {"query"}

\* The server evaluates one precondition of a write request against its log.
precondition_holds(p, log) ==
    CASE p.type = "isSubjectPristine" ->
            OnSubject(log, p.payload.subject) = {}
      [] p.type = "isSubjectOnEventId" ->
            /\ OnSubject(log, p.payload.subject) # {}
            /\ log[Latest(OnSubject(log, p.payload.subject))].id = p.payload.eventId
      [] p.type = "isEventQlTrue" ->
            p.payload.query = QueryNoEvents /\ log = <<>>
      [] OTHER -> FALSE

\* The server's answer to a write request: when every precondition holds, the
\* events are appended and returned with status 200; otherwise nothing is
\* stored and the status is 409 (400 for a precondition it cannot read).
ServerWrite(body, log) ==
    IF \E k \in 1..Len(body.preconditions) : ~well_formed(body.preconditions[k])
        THEN [status |-> 400, text |-> "bad request", events |-> <<>>, log |-> log]
    ELSE IF \A k \in 1..Len(body.preconditions) : precondition_holds(body.preconditions[k], log)
        THEN [status |-> 200, text |-> "",
              events |-> SubSeq(StoreAll(body.events, log), Len(log) + 1,
                                Len(log) + Len(body.events)),
              log |-> StoreAll(body.events, log)]
        ELSE [status |-> 409, text |-> "precondition failed", events |-> <<>>, log |-> log]

ReadOptions ==
    {NoOptions} \cup {ReadEventsOptions(recursive, order) :
                         recursive \in BOOLEAN,
                         order \in {"None", "Chronological", "Antichronological"}}

\* The `/` of the root subject.
RootSubject == <<Lit("/")>>

ReadSubjects == {RootSubject, Subject(<<"test">>), Subject(<<"test", "sub">>)}

\* Serialize for Ordering: the variant names in kebab-case.
serialize_ordering(order) ==
    CASE order = "Chronological" -> "chronological"
      [] order = "Antichronological" -> "antichronological"
      [] OTHER -> Absent

\* A body of read_events that leaves the options out.
read_events_body_without_options(subject, options) ==
    [subject |-> subject, options |-> <<>>]

\* ReadEventsRequest::body: the subject, and the key options when there are
\* some (the sequence holds the value of the key, or nothing without the
\* key); order is left out when it is None.
read_events_body(subject, options) ==
    [subject |-> subject,
     options |-> IF options.some
                    THEN <<[recursive |-> options.recursive,
                            order |-> serialize_ordering(options.order)]>>
                    ELSE <<>>]

\* The subject is below the base subject.
is_sub_subject(subject, base) ==
    /\ Len(subject) > Len(base)
    /\ SubSeq(subject, 1, Len(base)) = base
    /\ (base = RootSubject \/ subject[Len(base) + 1] = Lit("/"))

\* The sequence in the reverse order.
Reverse(seq) == [i \in 1..Len(seq) |-> seq[Len(seq) + 1 - i]]

\* The server's answer to a read request: the lines of the events on the
\* subject, with those below it when recursive is set, in the order they were
\* written or, for antichronological, in the reverse of it.
ServerRead(body, log) ==
    LET recursive == IF body.options = <<>> THEN FALSE ELSE body.options[1].recursive
        order == IF body.options = <<>> THEN Absent ELSE body.options[1].order
        selected == SelectSeq(log, LAMBDA doc :
                        \/ doc.subject = body.subject
                        \/ recursive /\ is_sub_subject(doc.subject, body.subject))
        ordered == IF order = "antichronological" THEN Reverse(selected) ELSE selected
    IN [i \in 1..Len(ordered) |-> EventLine(ordered[i])]

\* The items a decoder yields for the lines of a whole body.
RECURSIVE collect(_, _)
collect(op, body_lines) ==
    IF body_lines = <<>> THEN <<>>
    ELSE build_stream(op, Head(body_lines)) \o collect(op, Tail(body_lines))

ServerInit ==
    /\ db = <<>>
    /\ cursor = 0
    /\ snap = 0
    /\ wcands = <<>>
    /\ wresult = NoResult
    /\ wpre = <<>>
    /\ wreqs = <<>>
    /\ wlog = <<>>
    /\ rcall = NoRead

\* The server takes a read or observe request: status 200, and the body
\* begins.  A read covers the events stored at this moment.
DbAccept ==
    /\ spc = "sending"
    /\ spc' = "responded"
    /\ sresp' = [status |-> 200, readable |-> TRUE, text |-> ""]
    /\ snap' = Len(db)
    /\ cursor' = 0
    /\ UNCHANGED <<sop, sresult, srequests, wire, nsent, closed, lines, delivered, polling>>
    /\ UNCHANGED <<db, wcands, wresult, wpre, wreqs, wlog, rcall>>
    /\ UNCHANGED <<clientVars, oneshotVars, eventVars>>

\* The last event the body of the response covers.
LastCovered == IF answered_as_read(URL_PATH(sop)) THEN snap ELSE Len(db)

\* The server goes on to the next stored event and writes its line when the
\* event is on the requested subject.
DbSendEvent ==
    /\ spc \in {"responded", "streaming"}
    /\ ~closed
    /\ cursor < LastCovered
    /\ cursor' = cursor + 1
    /\ IF db[cursor + 1].subject = ObservedSubject
          THEN /\ wire' = Append(wire, EventLine(db[cursor + 1]))
               /\ nsent' = nsent + 1
          ELSE UNCHANGED <<wire, nsent>>
    /\ UNCHANGED <<sop, spc, sresp, sresult, srequests, closed, lines, delivered, polling>>
    /\ UNCHANGED <<db, snap, wcands, wresult, wpre, wreqs, wlog, rcall>>
    /\ UNCHANGED <<clientVars, oneshotVars, eventVars>>

\* The server ends the body of a read after the last event it covers.
DbEndOfBody ==
    /\ spc \in {"responded", "streaming"}
    /\ ~closed
    /\ answered_as_read(URL_PATH(sop))
    /\ cursor = snap
    /\ closed' = TRUE
    /\ UNCHANGED <<sop, spc, sresp, sresult, srequests, wire, nsent, lines, delivered, polling>>
    /\ UNCHANGED serverVars
    /\ UNCHANGED <<clientVars, oneshotVars, eventVars>>

\* Client::write_events(candidates, preconditions) and the server's part in
\* it: the request goes out, the server answers it, and the client returns
\* the events of a success answer decoded as Vec<Event>, or
\* DBApiError(status, text) for any other status.
write_events(candidates, preconditions) ==
    /\ Len(db) + Len(candidates) <= MaxEvents
    /\ LET request == write_events_request(candidates, preconditions)
           response == ServerWrite(request.body, db)
           events == [i \in 1..Len(response.events) |->
                         deserialize_event(response.events[i])]
       IN /\ wreqs' = <<request>>
          /\ db' = response.log
          /\ wresult' = IF is_success(response.status)
                           THEN Ok(events)
                           ELSE Err("DBApiError",
                                    [status |-> response.status, text |-> response.text])
          /\ wlog' = IF is_success(response.status) THEN wlog \o events ELSE wlog
    /\ wcands' = candidates
    /\ wpre' = preconditions
    /\ rcall' = NoRead
    /\ UNCHANGED <<cursor, snap>>
    /\ UNCHANGED <<clientVars, streamVars, oneshotVars, eventVars>>

\* Client::read_events(subject, options) with the stream read to its end
\* (try_collect), and the server's part in it.
read_events(subject, options) ==
    /\ LET body == read_events_body(subject, options)
       IN rcall' = [called |-> TRUE, subject |-> subject, options |-> options,
                    items |-> collect("read_events", ServerRead(body, db))]
    /\ wcands' = <<>>
    /\ wpre' = <<>>
    /\ wreqs' = <<>>
    /\ wresult' = NoResult
    /\ UNCHANGED <<db, cursor, snap, wlog>>
    /\ UNCHANGED <<clientVars, streamVars, oneshotVars, eventVars>>

NextServer ==
    \/ \E op \in {"read_events", "observe_events"} : request_streaming_send(op)
    \/ DbAccept
    \/ request_streaming_status
    \/ DbSendEvent
    \/ DbEndOfBody
    \/ Poll
    \/ PollLine
    \/ PollEnd
    \/ \E candidates \in CandidateLists(MaxCandidates) : write_events(candidates, <<>>)

InitServer == ClientIdle /\ StreamInit /\ OneShotInit /\ EventIdle /\ ServerInit
SpecServer == InitServer /\ [][NextServer]_vars

(***************************************************************************)
(* Writes with preconditions and reads with options against the database.  *)
(***************************************************************************)

\* The caller has the result of no call in its hands.
CallerIdle == wresult = NoResult /\ ~rcall.called

\* The caller drops the result of its last call.
DropResult ==
    /\ ~CallerIdle
    /\ wcands' = <<>>
    /\ wpre' = <<>>
    /\ wreqs' = <<>>
    /\ wresult' = NoResult
    /\ rcall' = NoRead
    /\ UNCHANGED <<db, cursor, snap, wlog>>
    /\ UNCHANGED <<clientVars, streamVars, oneshotVars, eventVars>>

\* One caller that makes its calls one after the other.
NextWrite ==
    \/ \E candidates \in CandidateLists(MaxCandidates) \cup {<<>>} :
          \E preconditions \in PreconditionLists(MaxPreconditions) :
              CallerIdle /\ write_events(candidates, preconditions)
    \/ \E subject \in ReadSubjects : \E options \in ReadOptions :
          CallerIdle /\ read_events(subject, options)
    \/ DropResult

InitWrite == ClientIdle /\ StreamInit /\ OneShotInit /\ EventIdle /\ ServerInit
SpecWrite == InitWrite /\ [][NextWrite]_vars

(***************************************************************************)
(* Properties of SpecEvent                                                 *)
(***************************************************************************)

\* The hash the event's fields should give: the digest of the hex digest of
\* the eight metadata fields joined by `|`, followed by the hex digest of the
\* raw data text.
CanonicalHash(e) ==
    LET bar == Text("|")
        metadata_text == e.specversion \o bar \o e.id \o bar \o e.predecessorhash \o bar
                         \o to_rfc3339_opts(e.time) \o bar \o e.source \o bar
                         \o e.subject \o bar \o e.ty \o bar \o e.datacontenttype
    IN hex_encode(Sha256(hex_encode(Sha256(metadata_text))
                         \o hex_encode(Sha256(e.data.raw))))

\* C16: verify_hash returns Ok exactly when the canonical hash of the fields
\* is the same text as the hash field, and otherwise HashVerificationFailed
\* with the hash field as `expected` and the canonical hash as `actual`; the
\* call sends no request and leaves the event as it was.
C16_VerifyHashResult ==
    /\ [](vop = "verify_hash" =>
            vresult = IF CanonicalHash(ev) = ev.hash
                         THEN Ok(Unit)
                         ELSE Err("HashVerificationFailed",
                                  [expected |-> ev.hash, actual |-> CanonicalHash(ev)]))
    /\ [][vop' = "verify_hash" =>
            (ev' = ev /\ srequests' = srequests /\ orequests' = orequests)]_vars

\* verify_hash has rejected an event whose hash field is the canonical hash
\* in upper case.
C16_Witness ==
    /\ vop = "verify_hash"
    /\ ev.hash = to_uppercase(CanonicalHash(ev))
    /\ vresult.res = "Err"

\* C17: when the hash of an event verifies and one hashed field, or the hash
\* field, is replaced by another value while all other fields stay, the hash
\* of the resulting event does not verify.
C17_SingleChangeDetected ==
    [][\A field \in HashedFields \cup {"hash"} :
          (/\ verify_hash(ev).res = "Ok"
           /\ ev'[field] # ev[field]
           /\ ev' = [ev EXCEPT ![field] = ev'[field]])
          => verify_hash(ev').res = "Err"]_vars

\* verify_hash has rejected an issued event in which only the subject was
\* replaced.
C17_Witness ==
    /\ nchanged = 1
    /\ ev.subject # Text("u")
    /\ vop = "verify_hash"
    /\ vresult.kind = "HashVerificationFailed"

\* The signature text begins with the prefix.
HasPrefix(text) == Len(text) >= 1 /\ text[1] = Lit("esdb:signature:v1:")

\* The text after the prefix is the hex text of exactly 64 bytes.
IsHexOf64Bytes(text) ==
    /\ Len(text) = 2
    /\ text[2].lit = "hex"
    /\ text[2].dig[1].lit \in Keys

\* C18: for an event that carries a signature and whose hash does not verify,
\* verify_signature returns the error verify_hash returns, whatever the
\* signature text and the key; an answer that depends on the key (Ok or
\* SignatureVerificationFailed) is given only for an event whose hash verifies.
C18_HashFailureFirst ==
    (vop = "verify_signature" /\ ev.signature.some) =>
        /\ verify_hash(ev).res = "Err" => vresult = verify_hash(ev)
        /\ (vresult.res = "Ok" \/ vresult.kind = "SignatureVerificationFailed")
              => verify_hash(ev).res = "Ok"

\* verify_signature has answered HashVerificationFailed for an event whose
\* signature text is not hex.
C18_Witness ==
    /\ vop = "verify_signature"
    /\ ev.signature.some
    /\ HasPrefix(ev.signature.text)
    /\ ~IsHexOf64Bytes(ev.signature.text)
    /\ verify_hash(ev).res = "Err"
    /\ vresult.kind = "HashVerificationFailed"

\* C19 as stated: every event whose signature lacks the prefix, or whose text
\* after the prefix is not the hex text of 64 bytes, is rejected with
\* MalformedSignature; SignatureVerificationFailed is returned only for a
\* well-formed signature that does not verify against the hash text.
C19_MalformedAlways ==
    (vop = "verify_signature" /\ ev.signature.some) =>
        /\ ~HasPrefix(ev.signature.text) => vresult = Err("MalformedSignature", Unit)
        /\ (HasPrefix(ev.signature.text) /\ ~IsHexOf64Bytes(ev.signature.text))
              => vresult = Err("MalformedSignature", Unit)
        /\ vresult.kind = "SignatureVerificationFailed" =>
              /\ HasPrefix(ev.signature.text)
              /\ IsHexOf64Bytes(ev.signature.text)
              /\ ev.signature.text[2].dig[1] # Sign(vkey, ev.hash)

\* C19 amended: the same for every event whose hash verifies.
C19_MalformedWhenHashVerifies ==
    (vop = "verify_signature" /\ ev.signature.some /\ CanonicalHash(ev) = ev.hash) =>
        /\ ~HasPrefix(ev.signature.text) => vresult = Err("MalformedSignature", Unit)
        /\ (HasPrefix(ev.signature.text) /\ ~IsHexOf64Bytes(ev.signature.text))
              => vresult = Err("MalformedSignature", Unit)
        /\ vresult.kind = "SignatureVerificationFailed" =>
              /\ HasPrefix(ev.signature.text)
              /\ IsHexOf64Bytes(ev.signature.text)
              /\ ev.signature.text[2].dig[1] # Sign(vkey, ev.hash)

\* verify_signature has answered MalformedSignature for an event whose hash
\* verifies and whose signature is the hex text of 32 bytes after the prefix.
C19_Witness ==
    /\ vop = "verify_signature"
    /\ ev.signature.some
    /\ CanonicalHash(ev) = ev.hash
    /\ HasPrefix(ev.signature.text)
    /\ Len(ev.signature.text) = 2
    /\ ev.signature.text[2].lit = "hex"
    /\ ev.signature.text[2].dig[1].lit = "sha256"
    /\ vresult = Err("MalformedSignature", Unit)

\* C25: the event parsed from the JSON text of an event is equal to it in
\* every field, its raw data text is the same text, and verify_hash returns
\* for it what it returns for the event.
C25_RoundTripPreserves ==
    vop = "round_trip" =>
        /\ event_eq(other, ev)
        /\ other = ev
        /\ other.data.raw = ev.data.raw
        /\ verify_hash(other) = verify_hash(ev)

\* An event with traceparent and tracestate, a signature, a fraction of a
\* second in its time and white space in its data text went through the
\* round trip.
C25_Witness ==
    /\ vop = "round_trip"
    /\ ev.traceinfo.v = "WithState"
    /\ ev.signature.some
    /\ ev.time.nano # "000000000"
    /\ ev.data.raw = Text("{ \"value\" : 1 }")

\* C29: two events that compare equal with == give the same verdict of
\* verify_hash (both Ok or both HashVerificationFailed).
C29_EqualEventsVerifyAlike ==
    (vop \in {"round_trip", "reparse"} /\ event_eq(ev, other))
        => verify_hash(ev).res = verify_hash(other).res

\* The two events agree in every field verify_hash reads.
SameHashedFields(a, b) ==
    /\ \A field \in HashedFields \ {"data"} : a[field] = b[field]
    /\ a.data.raw = b.data.raw
    /\ a.hash = b.hash

\* C30: two events that differ only in traceparent, tracestate or signature
\* give the same result of verify_hash.
C30_TraceAndSignatureNotHashed ==
    (vop = "reparse" /\ SameHashedFields(ev, other))
        => verify_hash(other) = verify_hash(ev)

\* An event whose hash verifies was parsed again with another trace info, and
\* the hash of the result verifies.
C30_Witness ==
    /\ vop = "reparse"
    /\ SameHashedFields(ev, other)
    /\ other.traceinfo # ev.traceinfo
    /\ other.signature = ev.signature
    /\ verify_hash(ev).res = "Ok"
    /\ verify_hash(other).res = "Ok"

(***************************************************************************)
(* Properties of SpecConcurrent                                            *)
(***************************************************************************)

\* The items a stream of `op` yields for the lines ls, from line i on, when
\* nothing else runs.
RECURSIVE ItemsAlone(_, _, _)
ItemsAlone(op, ls, i) ==
    IF i > Len(ls) THEN <<>>
    ELSE (IF build_stream(op, ls[i]) = <<>>
             THEN <<>>
             ELSE <<[src |-> i, item |-> build_stream(op, ls[i])[1]]>>)
         \o ItemsAlone(op, ls, i + 1)

\* What a one-shot call of `op` returns for the response resp when nothing
\* else runs.
ResultAlone(op, resp) ==
    IF ~is_success(resp.status)
        THEN Err("DBApiError", [status |-> resp.status, text |-> text_or_default(resp)])
    ELSE IF ~(resp.readable /\ resp.kind = Response(op))
        THEN Err("ReqwestError", Str("decode"))
    ELSE IF op = "ping" /\ resp.type # PingReceived
        THEN Err("PingFailed", Unit)
    ELSE IF op = "ping" THEN Ok(Unit)
    ELSE Ok([kind |-> resp.kind, type |-> resp.type])

C12_ObserveStaysOpen ==
    sop = "observe_events" =>
        /\ ~closed
        /\ spc # "ended"
        /\ \A i \in 1..Len(delivered) :
              /\ delivered[i].item.res = "Ok"
              /\ \E k \in 1..Len(db) :
                    /\ db[k].subject = ObservedSubject
                    /\ delivered[i].item.val = JsonValue("event", db[k].id)
                    /\ Cardinality({j \in 1..k : db[j].subject = ObservedSubject}) = i

\* C20: the events a successful write_events call returns are as many as the
\* candidates it was given, and the i-th of them has the source, subject,
\* type, data and trace info of the i-th candidate.
C20_WrittenAsSubmitted ==
    wresult.res = "Ok" =>
        /\ Len(wresult.val) = Len(wcands)
        /\ \A i \in 1..Len(wcands) :
              /\ wresult.val[i].source = wcands[i].source
              /\ wresult.val[i].subject = wcands[i].subject
              /\ wresult.val[i].ty = wcands[i].ty
              /\ wresult.val[i].data.parsed = wcands[i].data
              /\ wresult.val[i].traceinfo = wcands[i].traceinfo

\* A call with two different candidates, the second with traceparent and
\* tracestate, has returned.
C20_Witness ==
    /\ wresult.res = "Ok"
    /\ Len(wcands) = 2
    /\ wcands[1] # wcands[2]
    /\ wcands[2].traceinfo.v = "WithState"
    /\ Len(wresult.val) = 2

(***************************************************************************)
(* Properties of SpecWrite                                                 *)
(***************************************************************************)

\* C21: the events returned by all successful write_events calls, in the
\* order they were written, are the persisted events and form one chain: the
\* ids are the decimal numbers 0, 1, 2, ... without a gap, the first
\* predecessorhash is 64 zero characters, and every later predecessorhash is
\* the hash of the event written immediately before.
C21_OneChain ==
    /\ Len(wlog) = Len(db)
    /\ \A k \in 1..Len(wlog) :
          /\ wlog[k] = deserialize_event(db[k])
          /\ wlog[k].id = Text(ToString(k - 1))
          /\ wlog[k].predecessorhash =
                IF k = 1
                   THEN Text("0000000000000000000000000000000000000000000000000000000000000000")
                   ELSE wlog[k - 1].hash
          /\ k > 1 => wlog[k].hash # wlog[k - 1].hash

\* Two calls have written one event each.
C21_Witness ==
    /\ wresult.res = "Ok"
    /\ Len(wresult.val) = 1
    /\ Len(wlog) = 2
    /\ wlog[2] = wresult.val[1]

\* The precondition is true of the log of persisted events.
Holds(p, log) ==
    CASE p.v = "IsSubjectPristine" ->
            \A k \in 1..Len(log) : log[k].subject # p.subject
      [] p.v = "IsSubjectOnEventId" ->
            \E k \in 1..Len(log) :
                /\ log[k].subject = p.subject
                /\ log[k].id = p.event_id
                /\ \A j \in (k + 1)..Len(log) : log[j].subject # p.subject
      [] p.v = "IsEventQLTrue" -> p.query = QueryNoEvents /\ log = <<>>

\* The ids of the events the items of a read stand for.
ReadIds == [i \in 1..Len(rcall.items) |-> rcall.items[i].val.val]

\* C22: a write_events call of which some precondition is false returns an
\* error and persists none of its candidates; a call of which every
\* precondition holds returns normally and persists its candidates; a read
\* of everything shows exactly the persisted events.
C22_AllOrNothing ==
    /\ [][wresult' # NoResult =>
            IF \A k \in 1..Len(wpre') : Holds(wpre'[k], db)
               THEN /\ wresult'.res = "Ok"
                    /\ Len(db') = Len(db) + Len(wcands')
                    /\ SubSeq(db', 1, Len(db)) = db
               ELSE /\ wresult'.res = "Err"
                    /\ db' = db
                    /\ wlog' = wlog]_vars
    /\ []((/\ rcall.called
           /\ rcall.subject = RootSubject
           /\ rcall.options.recursive
           /\ rcall.options.order # "Antichronological")
          => ReadIds = [k \in 1..Len(db) |-> db[k].id])

\* A call with a candidate for /test/sub has failed on a database with an
\* event on /test because /test was required to be pristine, after another
\* precondition that holds.
C22_Witness ==
    /\ wresult.res = "Err"
    /\ wresult.kind = "DBApiError"
    /\ Len(wcands) = 1
    /\ wcands[1].subject = Subject(<<"test", "sub">>)
    /\ Len(wpre) = 2
    /\ Holds(wpre[1], db)
    /\ wpre[2] = IsSubjectPristine(Subject(<<"test">>))
    /\ Len(db) = 1

ExpectedIds(subject, options) ==
    LET selected == SelectSeq(db, LAMBDA doc :
                        \/ doc.subject = subject
                        \/ options.recursive /\ is_sub_subject(doc.subject, subject))
    IN IF options.order = "Antichronological"
          THEN [i \in 1..Len(selected) |-> selected[Len(selected) + 1 - i].id]
          ELSE [i \in 1..Len(selected) |-> selected[i].id]

\* C24: read_events delivers exactly the persisted events on the subject,
\* and with recursive those below it as well, all as Ok items, in write
\* order, or in the reverse of it for antichronological.
C24_ReadSelectsAndOrders ==
    rcall.called =>
        /\ \A i \in 1..Len(rcall.items) :
              rcall.items[i].res = "Ok" /\ rcall.items[i].val.kind = "event"
        /\ ReadIds = ExpectedIds(rcall.subject, rcall.options)

\* A recursive antichronological read of /test has delivered the event on
\* /test/sub before the event on /test written before it.
C24_Witness ==
    /\ rcall.called
    /\ rcall.subject = Subject(<<"test">>)
    /\ rcall.options.recursive
    /\ rcall.options.order = "Antichronological"
    /\ Len(db) = 2
    /\ db[1].subject = Subject(<<"test">>)
    /\ db[2].subject = Subject(<<"test", "sub">>)
    /\ ReadIds = <<db[2].id, db[1].id>>

\* C26: every write_events call has sent exactly one request, a POST to
\* /api/v1/write-events, whose body carries all candidates and all
\* preconditions of the call in the order given.
C26_OnePostWithEverything ==
    wresult # NoResult =>
        /\ Len(wreqs) = 1
        /\ wreqs[1].method = "POST"
        /\ wreqs[1].path = "/api/v1/write-events"
        /\ wreqs[1].body.events =
              [i \in 1..Len(wcands) |-> serialize_candidate(wcands[i])]
        /\ wreqs[1].body.preconditions =
              [k \in 1..Len(wpre) |-> serialize_precondition(wpre[k])]

\* A call without candidates and with two preconditions, an EventQL query
\* among them, has sent its request.
C26_Witness ==
    /\ wresult # NoResult
    /\ wcands = <<>>
    /\ Len(wpre) = 2
    /\ wpre[2].v = "IsEventQLTrue"
    /\ Len(wreqs) = 1

====
